---- MODULE Spec2Model ----
(***************************************************************************)
(* The tabular containers and readers exercised by                         *)
(* lecture_5_data_wrangling/data_wrangling_1.ipynb: the astropy Table      *)
(* `new_table`, the pandas DataFrame `df1`, the numpy text readers and      *)
(* the CSV writers.  Each notebook statement is a call into one of these   *)
(* objects; an action below is one such call, with the effect the called   *)
(* method has on the object.                                               *)
(***************************************************************************)
EXTENDS Integers, Sequences, FiniteSets, TLC

VARIABLES
    cls,      \* which container the cell created: "Table" (astropy) or "DataFrame" (pandas)
    columns,  \* the container's ordered columns: Seq of [name, dtype, data]
    call,     \* the statement of the running cell: [op, ...arguments], op "none" between cells
    exc,      \* the exception that statement raised, or "ok"
    ret,      \* the value that statement evaluated to, or None
    file,     \* the file a cell writes or reads: NoFile, TextFile(lines), RawFile(bytes)
    input_file,   \* the file object bound to the name input_file
    output_file,  \* the file object bound to the name output_file
    pc,       \* the cell being run and its next statement, or NoCell
    x1,       \* the array bound to the name x1
    x2        \* the array bound to the name x2

\* The names the file cells bind and the names the array cells bind
handles == <<input_file, output_file, pc>>
arrays == <<x1, x2>>

vars == <<cls, columns, call, exc, ret, file, input_file, output_file, pc, x1, x2>>

\* Longest list assigned as a column and the largest row count explored;
\* also the largest number of lines of a numeric text file.
MaxRows == 2

\* Largest number of tokens on a line of a numeric text file.
MaxTokens == 2

-----------------------------------------------------------------------------
(* Values.  A value is <<tag, payload>>: an int carries the integer, a float *)
(* carries its value in units of one half (3 is 1.5), a str carries its     *)
(* text.  NaN is pandas' missing marker.                                    *)

IntV(n) == <<"int", n>>
FloatV(h) == <<"float", h>>
StrV(s) == <<"str", s>>
NaN == <<"nan", 0>>
Raise == <<"raise", 0>>

\* The literals the notebook cells put in lists and tuples: 1, 1.5, "abc".
\* Every text of the model is at most three characters, the width of the
\* narrowest string column that can exist, so numpy's fixed-width strings
\* never truncate here.
InputValues == {IntV(1), FloatV(3), StrV("abc")}

Digit(d) ==
    CASE d = 0 -> "0" [] d = 1 -> "1" [] d = 2 -> "2" [] d = 3 -> "3" [] d = 4 -> "4"
      [] d = 5 -> "5" [] d = 6 -> "6" [] d = 7 -> "7" [] d = 8 -> "8" [] d = 9 -> "9"

\* str(n) for 0 <= n <= 99
IntText(n) == IF n < 10 THEN Digit(n) ELSE Digit(n \div 10) \o Digit(n % 10)

\* repr of a float given in halves: 3 -> "1.5", 4 -> "2.0"
FloatText(h) == IntText(h \div 2) \o (IF h % 2 = 0 THEN ".0" ELSE ".5")

\* str(v), the text numpy stores when a number is converted to a string dtype
\* and the text a CSV writer puts in a cell
Text(v) ==
    CASE v[1] = "int" -> IntText(v[2])
      [] v[1] = "float" -> FloatText(v[2])
      [] v[1] = "str" -> v[2]
      [] v[1] = "nan" -> ""

NumRange == 0..9

\* int(text): the integer literal a text spells, or Raise (ValueError)
ParseInt(s) ==
    IF \E n \in NumRange : IntText(n) = s
    THEN IntV(CHOOSE n \in NumRange : IntText(n) = s)
    ELSE Raise

\* float(text): integer and decimal literals both parse
ParseFloat(s) ==
    IF \E h \in NumRange : FloatText(h) = s
    THEN FloatV(CHOOSE h \in NumRange : FloatText(h) = s)
    ELSE IF \E n \in NumRange : IntText(n) = s
    THEN FloatV(2 * (CHOOSE n \in NumRange : IntText(n) = s))
    ELSE Raise

\* numpy's cast of one value to a column dtype (np.array(value, dtype=...)):
\* float -> int64 truncates, int -> float64 is exact, str -> number parses the
\* text or raises ValueError, number -> str stores str(number).
Cast(v, dtype) ==
    CASE dtype = "int64" ->
            (CASE v[1] = "int" -> v
               [] v[1] = "float" -> IntV(v[2] \div 2)
               [] v[1] = "str" -> ParseInt(v[2]))
      [] dtype = "float64" ->
            (CASE v[1] = "int" -> FloatV(2 * v[2])
               [] v[1] = "float" -> v
               [] v[1] = "str" -> ParseFloat(v[2]))
      [] dtype = "str" -> StrV(Text(v))

Tags(values) == {values[i][1] : i \in DOMAIN values}

\* np.array(list).dtype: the common dtype of a list of literals
InferDtype(values) ==
    IF "str" \in Tags(values) THEN "str"
    ELSE IF "float" \in Tags(values) \/ values = <<>> THEN "float64"
    ELSE "int64"

\* Column(list): astropy builds the column with np.array(list)
Column(name, values) ==
    [name |-> name,
     dtype |-> InferDtype(values),
     data |-> [i \in DOMAIN values |-> Cast(values[i], InferDtype(values))]]

-----------------------------------------------------------------------------
(* Read-only views of the container *)

colnames(cols) == [i \in DOMAIN cols |-> cols[i].name]

NameSet(cols) == {cols[i].name : i \in DOMAIN cols}

\* len(table): the length of the first column, 0 without columns
RowCount(cols) == IF cols = <<>> THEN 0 ELSE Len(cols[1].data)

IndexOf(cols, name) == CHOOSE i \in DOMAIN cols : cols[i].name = name

-----------------------------------------------------------------------------
(* Exceptions, by Python class and cause *)

LengthError == "ValueError: length"      \* a column or row of the wrong length
ConvertError == "ValueError: convert"    \* a value its column's dtype cannot hold
DuplicateError == "ValueError: duplicate column names"
KeyError == "KeyError"                   \* no column of that name
IndexError == "IndexError"               \* row index out of range

\* What a statement evaluates to: nothing, a column's data, a row, a table
None == [kind |-> "None", value |-> <<>>]
Returned(kind, value) == [kind |-> kind, value |-> value]

NoFile == [exists |-> FALSE, lines |-> <<>>]
TextFile(lines) == [exists |-> TRUE, lines |-> lines]
RawFile(bytes) == [exists |-> TRUE, bytes |-> bytes]

\* A file object that is closed, which is also how a name not yet bound to
\* a file object is held; an open one is OpenFile(mode, prior, start)
Closed ==
    [closed |-> TRUE, mode |-> "", buffer |-> <<>>,
     prior |-> <<>>, start |-> <<>>]
NoCell == [cell |-> "none", at |-> 0]

\* Before any file cell and any array cell has run
NoHandles == input_file = Closed /\ output_file = Closed /\ pc = NoCell
NoArrays == x1 = None /\ x2 = None

Outcome(e, cols, r) == [exc |-> e, columns |-> cols, ret |-> r]

HasRaise(data) == \E i \in DOMAIN data : data[i] = Raise

-----------------------------------------------------------------------------
(* astropy.table.Table *)

\* Table.add_column without the broadcast of a one-element column
Table_add_column_nobroadcast(cols, name, values) ==
    LET col == Column(name, values)
    IN  IF Len(cols) > 0 /\ Len(col.data) # RowCount(cols)
        THEN {Outcome(LengthError, cols, None)}
        ELSE {Outcome("ok", Append(cols, col), None)}

\* Table.add_column without its length check
Table_add_column_unchecked(cols, name, values) ==
    {Outcome("ok", Append(cols, Column(name, values)), None)}

\* Table.add_column, reached from Table.__setitem__ when the name is new.
\* A one-element column is broadcast to the table length when the table has
\* rows; the length check applies only when the table already has columns.
Table_add_column(cols, name, values) ==
    LET col == Column(name, values)
        n == RowCount(cols)
        bcol == IF Len(col.data) = 1 /\ n > 0
                THEN [col EXCEPT !.data = [i \in 1..n |-> col.data[1]]]
                ELSE col
    IN  IF Len(cols) > 0 /\ Len(bcol.data) # n
        THEN {Outcome(LengthError, cols, None)}
        ELSE {Outcome("ok", Append(cols, bcol), None)}

\* Table.replace_column that drops the old column and adds the new one last
Table_replace_column_last(cols, name, values) ==
    LET col == Column(name, values)
        i == IndexOf(cols, name)
    IN  IF Len(cols) > 1 /\ Len(col.data) # Len(cols[i].data)
        THEN {Outcome(LengthError, cols, None)}
        ELSE {Outcome("ok",
                      Append(SelectSeq(cols, LAMBDA c : c.name # name), col),
                      None)}

\* Table.replace_column that validates the new column and keeps the old one
Table_replace_column_stale(cols, name, values) ==
    LET col == Column(name, values)
        i == IndexOf(cols, name)
    IN  IF Len(cols) > 1 /\ Len(col.data) # Len(cols[i].data)
        THEN {Outcome(LengthError, cols, None)}
        ELSE {Outcome("ok", cols, None)}

\* Table.replace_column: the new column takes the old one's position; its
\* length is checked unless it is the table's only column.
Table_replace_column(cols, name, values) ==
    LET col == Column(name, values)
        i == IndexOf(cols, name)
    IN  IF Len(cols) > 1 /\ Len(col.data) # Len(cols[i].data)
        THEN {Outcome(LengthError, cols, None)}
        ELSE {Outcome("ok", [cols EXCEPT ![i] = col], None)}

\* Column.__setitem__ on the whole column, `col[:] = values`: numpy broadcasts
\* a list of the column's length or of length one and casts to the column's
\* dtype.  With no element to write, numpy may or may not reject a value the
\* dtype cannot hold.
Column_setslice(cols, name, values) ==
    LET i == IndexOf(cols, name)
        col == cols[i]
        n == Len(col.data)
        L == Len(values)
        data == [k \in 1..n |-> Cast(values[IF L = 1 THEN 1 ELSE k], col.dtype)]
    IN  IF L # n /\ L # 1 THEN {Outcome(LengthError, cols, None)}
        ELSE IF HasRaise(data) THEN {Outcome(ConvertError, cols, None)}
        ELSE {Outcome("ok", [cols EXCEPT ![i].data = data], None)}
             \cup (IF n = 0 /\ L = 1 /\ Cast(values[1], col.dtype) = Raise
                   THEN {Outcome(ConvertError, cols, None)} ELSE {})

\* Table.__setitem__ with a column name: `new_table[name] = values`.
\* A new name adds a column; an existing name is replaced, and when the
\* replacement raises, the values are written into the existing column.
Table_setitem(cols, name, values) ==
    IF name \notin NameSet(cols)
    THEN Table_add_column(cols, name, values)
    ELSE IF \E o \in Table_replace_column(cols, name, values) : o.exc = "ok"
    THEN Table_replace_column(cols, name, values)
    ELSE Column_setslice(cols, name, values)

\* Column.insert storing the value as it is given
Column_insert_nocast(col, v) == {v}

\* Column.insert of one value at the end: np.insert casts the value to the
\* column's dtype.  A number offered to a string column is either rejected
\* (np.char.str_len raises on it) or stored as its text, depending on the
\* astropy release.
Column_insert(col, v) ==
    IF col.dtype = "str" /\ v[1] # "str"
    THEN {Raise, Cast(v, "str")}
    ELSE {Cast(v, col.dtype)}

\* Table.add_row inserting the new row before the first one
Table_add_row_prepend(cols, vals) ==
    IF Len(cols) # Len(vals)
    THEN {Outcome(LengthError, cols, None)}
    ELSE LET new == [i \in DOMAIN cols |-> Cast(vals[i], cols[i].dtype)]
         IN  IF HasRaise(new)
             THEN {Outcome(ConvertError, cols, None)}
             ELSE {Outcome("ok",
                           [i \in DOMAIN cols |->
                               [cols[i] EXCEPT !.data = <<new[i]>> \o cols[i].data]],
                           None)}

\* Table.add_row writing each column in place: a value that cannot be
\* converted stops the loop after the columns before it were extended
Table_add_row_inplace(cols, vals) ==
    IF Len(cols) # Len(vals)
    THEN {Outcome(LengthError, cols, None)}
    ELSE LET new == [i \in DOMAIN cols |-> Cast(vals[i], cols[i].dtype)]
             bad == {i \in DOMAIN cols : new[i] = Raise}
             stop == IF bad = {} THEN Len(cols) + 1
                     ELSE CHOOSE i \in bad : \A j \in bad : i <= j
         IN  {Outcome(IF bad = {} THEN "ok" ELSE ConvertError,
                      [i \in DOMAIN cols |->
                          IF i < stop
                          THEN [cols[i] EXCEPT !.data = Append(cols[i].data, new[i])]
                          ELSE cols[i]],
                      None)}

\* Table.add_row -> Table.insert_row at the end: the new columns are built
\* aside and swapped in only when every insert succeeded.
Table_add_row(cols, vals) ==
    IF Len(cols) # Len(vals)
    THEN {Outcome(LengthError, cols, None)}
    ELSE {IF HasRaise(new)
          THEN Outcome(ConvertError, cols, None)
          ELSE Outcome("ok",
                       [i \in DOMAIN cols |->
                           [cols[i] EXCEPT !.data = Append(cols[i].data, new[i])]],
                       None)
          : new \in {f \in [DOMAIN cols -> UNION {Column_insert(cols[i], vals[i]) : i \in DOMAIN cols}] :
                        \A i \in DOMAIN cols : f[i] \in Column_insert(cols[i], vals[i])}}

\* Table.__getitem__ with a name: `new_table["temp"]`
Table_getitem_name(cols, name) ==
    IF name \notin NameSet(cols)
    THEN {Outcome(KeyError, cols, None)}
    ELSE {Outcome("ok", cols, Returned("Column", cols[IndexOf(cols, name)].data))}

\* Table.__getitem__ with a list of names that skips the names it does not find
Table_getitem_names_skipmissing(cols, names) ==
    LET found == SelectSeq(names, LAMBDA n : n \in NameSet(cols))
    IN  {Outcome("ok", cols,
                 Returned("Table", [k \in DOMAIN found |-> cols[IndexOf(cols, found[k])]]))}

\* Table.__getitem__ with a list of names: `new_table[["mass", "temp"]]`.
\* An empty list selects no rows of the whole table; otherwise a new Table
\* is built from the named columns, which rejects repeated names.
Table_getitem_names(cols, names) ==
    IF names = <<>>
    THEN {Outcome("ok", cols,
                  Returned("Table", [i \in DOMAIN cols |-> [cols[i] EXCEPT !.data = <<>>]]))}
    ELSE IF \E k \in DOMAIN names : names[k] \notin NameSet(cols)
    THEN {Outcome(KeyError, cols, None)}
    ELSE IF \E j, k \in DOMAIN names : j # k /\ names[j] = names[k]
    THEN {Outcome(DuplicateError, cols, None)}
    ELSE {Outcome("ok", cols,
                  Returned("Table", [k \in DOMAIN names |-> cols[IndexOf(cols, names[k])]]))}

\* Row(table, index) with the upper bound off by one
Table_getitem_row_offbyone(cols, index) ==
    LET n == RowCount(cols)
    IN  IF index < -n \/ index > n \/ n = 0
        THEN {Outcome(IndexError, cols, None)}
        ELSE {Outcome("ok", cols,
                     Returned("Row", [i \in DOMAIN cols |-> cols[i].data[(index % n) + 1]]))}

\* Table.__getitem__ with an integer: `new_table[2]` builds Row(table, index),
\* which accepts -len <= index < len and counts negative indices from the end.
Table_getitem_row(cols, index) ==
    LET n == RowCount(cols)
    IN  IF index < -n \/ index >= n
        THEN {Outcome(IndexError, cols, None)}
        ELSE {Outcome("ok", cols,
                     Returned("Row", [i \in DOMAIN cols |-> cols[i].data[(index % n) + 1]]))}

-----------------------------------------------------------------------------
(* pandas.DataFrame *)

\* Series(list): a list holding a str becomes an object column that keeps
\* every element as it is; numbers take numpy's common dtype.
Series(name, values) ==
    IF "str" \in Tags(values)
    THEN [name |-> name, dtype |-> "object", data |-> values]
    ELSE Column(name, values)

\* DataFrame._ensure_valid_index: a frame without rows takes the index of the
\* first non-empty list assigned to it, and the columns it already has are
\* reindexed to that length with NaN.
DataFrame_ensure_valid_index(cols, values) ==
    IF RowCount(cols) = 0 /\ Len(values) > 0
    THEN [i \in DOMAIN cols |->
             [cols[i] EXCEPT !.data = [k \in DOMAIN values |-> NaN],
                             !.dtype = IF @ = "int64" THEN "float64" ELSE @]]
    ELSE cols

\* DataFrame.__setitem__ without require_length_match
DataFrame_setitem_unchecked(cols, name, values) ==
    LET indexed == DataFrame_ensure_valid_index(cols, values)
        col == Series(name, values)
    IN  IF name \in NameSet(indexed)
        THEN {Outcome("ok", [indexed EXCEPT ![IndexOf(indexed, name)] = col], None)}
        ELSE {Outcome("ok", Append(indexed, col), None)}

\* DataFrame.__setitem__ with a column name: `df1[name] = values`.
\* The list must be as long as the index; an existing name keeps its
\* position, a new name goes last.
DataFrame_setitem(cols, name, values) ==
    LET indexed == DataFrame_ensure_valid_index(cols, values)
        col == Series(name, values)
    IN  IF Len(values) # RowCount(indexed) /\ indexed # <<>>
        THEN {Outcome(LengthError, cols, None)}
        ELSE IF name \in NameSet(indexed)
        THEN {Outcome("ok", [indexed EXCEPT ![IndexOf(indexed, name)] = col], None)}
        ELSE {Outcome("ok", Append(indexed, col), None)}

\* DataFrame.__getitem__ with a name: `df1["col4"]`
DataFrame_getitem_name(cols, name) ==
    IF name \notin NameSet(cols)
    THEN {Outcome(KeyError, cols, None)}
    ELSE {Outcome("ok", cols, Returned("Column", cols[IndexOf(cols, name)].data))}

-----------------------------------------------------------------------------
(* The statements of the notebook, with their arguments drawn from small sets *)

Names == {"mass", "temp"}

Lists(S, n) == UNION {[1..k -> S] : k \in 0..n}

ColumnInputs == Lists(InputValues, MaxRows)

RowInputs == Lists(InputValues, Cardinality(Names) + 1)

NamesInputs == Lists(Names, 2)

IndexInputs == (0 - MaxRows - 1)..(MaxRows + 1)

Idle == call.op = "none"

Apply(o) ==
    /\ columns' = o.columns
    /\ exc' = o.exc
    /\ ret' = o.ret
    /\ UNCHANGED <<cls, file, handles, arrays>>

\* new_table = table.Table() / df1 = pd.DataFrame()
Init ==
    /\ cls \in {"Table", "DataFrame"}
    /\ columns = <<>>
    /\ call = [op |-> "none"]
    /\ exc = "ok"
    /\ ret = None
    /\ file = NoFile
    /\ NoHandles
    /\ NoArrays

\* new_table['name'] = ["alpha", "beta", "gamma"]
TableSetColumn(name, values) ==
    /\ Idle
    /\ cls = "Table"
    /\ call' = [op |-> "setitem", name |-> name, values |-> values]
    /\ \E o \in Table_setitem(columns, name, values) : Apply(o)

\* df1["col1"] = [2, 3, 4]
DataFrameSetColumn(name, values) ==
    /\ Idle
    /\ cls = "DataFrame"
    /\ call' = [op |-> "setitem", name |-> name, values |-> values]
    /\ \E o \in DataFrame_setitem(columns, name, values) : Apply(o)

\* new_table.add_row(("delta", 6.3, 10002))
TableAddRow(vals) ==
    /\ Idle
    /\ cls = "Table"
    /\ RowCount(columns) < MaxRows
    /\ call' = [op |-> "add_row", vals |-> vals]
    /\ \E o \in Table_add_row(columns, vals) : Apply(o)

\* new_table["temp"]
TableGetColumn(name) ==
    /\ Idle
    /\ cls = "Table"
    /\ call' = [op |-> "getitem_name", name |-> name]
    /\ \E o \in Table_getitem_name(columns, name) : Apply(o)

\* df1["col4"]
DataFrameGetColumn(name) ==
    /\ Idle
    /\ cls = "DataFrame"
    /\ call' = [op |-> "getitem_name", name |-> name]
    /\ \E o \in DataFrame_getitem_name(columns, name) : Apply(o)

\* new_table[["mass", "temp"]]
TableGetColumns(names) ==
    /\ Idle
    /\ cls = "Table"
    /\ call' = [op |-> "getitem_names", names |-> names]
    /\ \E o \in Table_getitem_names(columns, names) : Apply(o)

\* new_table[2]
TableGetRow(index) ==
    /\ Idle
    /\ cls = "Table"
    /\ call' = [op |-> "getitem_row", index |-> index]
    /\ \E o \in Table_getitem_row(columns, index) : Apply(o)

\* The cell ends: its output is displayed and dropped, the objects stay.
NextCell ==
    /\ ~Idle
    /\ call' = [op |-> "none"]
    /\ exc' = "ok"
    /\ ret' = None
    /\ UNCHANGED <<cls, columns, file, handles, arrays>>

Next ==
    \/ \E name \in Names, values \in ColumnInputs : TableSetColumn(name, values)
    \/ \E name \in Names, values \in ColumnInputs : DataFrameSetColumn(name, values)
    \/ \E vals \in RowInputs : TableAddRow(vals)
    \/ \E name \in Names : TableGetColumn(name)
    \/ \E name \in Names : DataFrameGetColumn(name)
    \/ \E names \in NamesInputs : TableGetColumns(names)
    \/ \E index \in IndexInputs : TableGetRow(index)
    \/ NextCell

Spec == Init /\ [][Next]_vars

-----------------------------------------------------------------------------
(* Writing a table as CSV and reading it back *)

\* Table.write that leaves the header line out
Table_write_csv_noheader(cols) ==
    [r \in 1..RowCount(cols) |-> [c \in DOMAIN cols |-> Text(cols[c].data[r])]]

\* new_table.write(path, format="ascii.csv"): a header line of the column
\* names, then one line per row with str() of every value
Table_write_csv(cols) ==
    <<colnames(cols)>> \o
    [r \in 1..RowCount(cols) |-> [c \in DOMAIN cols |-> Text(cols[c].data[r])]]

\* df1.to_csv(path): pandas writes the row index as a first column with an
\* empty header cell, and NaN as an empty cell
DataFrame_to_csv(cols) ==
    <<(<<"">> \o colnames(cols))>> \o
    [r \in 1..RowCount(cols) |->
        <<IntText(r - 1)>> \o [c \in DOMAIN cols |-> Text(cols[c].data[r])]]

\* The texts of column c of the data lines
CellTexts(lines, c) == [r \in 1..(Len(lines) - 1) |-> lines[r + 1][c]]

\* Table.read(path, format="ascii.csv"): the first line names the columns;
\* each column is converted with the first converter that accepts all of its
\* texts: int, then float, then str
Table_read_csv(lines) ==
    [c \in DOMAIN lines[1] |->
        LET texts == CellTexts(lines, c)
        IN  IF ~HasRaise([r \in DOMAIN texts |-> ParseInt(texts[r])])
            THEN [name |-> lines[1][c], dtype |-> "int64",
                  data |-> [r \in DOMAIN texts |-> ParseInt(texts[r])]]
            ELSE IF ~HasRaise([r \in DOMAIN texts |-> ParseFloat(texts[r])])
            THEN [name |-> lines[1][c], dtype |-> "float64",
                  data |-> [r \in DOMAIN texts |-> ParseFloat(texts[r])]]
            ELSE [name |-> lines[1][c], dtype |-> "str",
                  data |-> [r \in DOMAIN texts |-> StrV(texts[r])]]]

\* pandas' cell parsers: an empty cell is NaN
ParseIntNA(s) == IF s = "" THEN Raise ELSE ParseInt(s)
ParseFloatNA(s) == IF s = "" THEN NaN ELSE ParseFloat(s)

\* pd.read_csv(path): the first line names the columns, an empty header cell
\* becoming "Unnamed: <position>"; a column is int64 when all its cells are
\* integers, float64 when they are numbers or empty, and otherwise an object
\* column of the texts
pd_read_csv(lines) ==
    [c \in DOMAIN lines[1] |->
        LET texts == CellTexts(lines, c)
            name == IF lines[1][c] = "" THEN "Unnamed: " \o IntText(c - 1)
                    ELSE lines[1][c]
        IN  IF ~HasRaise([r \in DOMAIN texts |-> ParseIntNA(texts[r])])
            THEN [name |-> name, dtype |-> "int64",
                  data |-> [r \in DOMAIN texts |-> ParseInt(texts[r])]]
            ELSE IF ~HasRaise([r \in DOMAIN texts |-> ParseFloatNA(texts[r])])
            THEN [name |-> name, dtype |-> "float64",
                  data |-> [r \in DOMAIN texts |-> ParseFloatNA(texts[r])]]
            ELSE [name |-> name, dtype |-> "object",
                  data |-> [r \in DOMAIN texts |->
                               IF texts[r] = "" THEN NaN ELSE StrV(texts[r])]]]

\* The tables a cell like the notebook's builds before writing them: one or
\* two columns assigned from lists of one common length, at least one row
setitem(c, cols, name, values) ==
    IF c = "Table" THEN Table_setitem(cols, name, values)
    ELSE DataFrame_setitem(cols, name, values)

RECURSIVE Build(_, _, _)
Build(c, cols, assigned) ==
    IF assigned = <<>> THEN cols
    ELSE Build(c,
               (CHOOSE o \in setitem(c, cols, assigned[1][1], assigned[1][2]) : TRUE).columns,
               Tail(assigned))

OneColumn(R) == {<<(<<n, v>>)>> : n \in Names, v \in [1..R -> InputValues]}

TwoColumns(R) ==
    {ab[1] \o ab[2] :
        ab \in {p \in OneColumn(R) \X OneColumn(R) : p[1][1][1] # p[2][1][1]}}

Assignments == UNION {OneColumn(R) \cup TwoColumns(R) : R \in 1..MaxRows}

InitCsv ==
    /\ cls \in {"Table", "DataFrame"}
    /\ \E a \in Assignments :
          columns = Build(cls, <<>>, a)
    /\ call = [op |-> "none"]
    /\ exc = "ok"
    /\ ret = None
    /\ file = NoFile
    /\ NoHandles
    /\ NoArrays

\* new_table.write("my_astropy_table.csv", format="ascii.csv")
TableWrite ==
    /\ Idle
    /\ cls = "Table"
    /\ call' = [op |-> "write"]
    /\ file' = TextFile(Table_write_csv(columns))
    /\ exc' = "ok"
    /\ ret' = None
    /\ UNCHANGED <<cls, columns, handles, arrays>>

\* df1.to_csv("pd_df1.csv")
DataFrameToCsv ==
    /\ Idle
    /\ cls = "DataFrame"
    /\ call' = [op |-> "write"]
    /\ file' = TextFile(DataFrame_to_csv(columns))
    /\ exc' = "ok"
    /\ ret' = None
    /\ UNCHANGED <<cls, columns, handles, arrays>>

\* table.Table.read("my_astropy_table.csv", format="ascii.csv")
TableRead ==
    /\ Idle
    /\ cls = "Table"
    /\ file.exists
    /\ call' = [op |-> "read"]
    /\ exc' = "ok"
    /\ ret' = Returned("Table", Table_read_csv(file.lines))
    /\ UNCHANGED <<cls, columns, file, handles, arrays>>

\* pd.read_csv("pd_df1.csv")
ReadCsv ==
    /\ Idle
    /\ cls = "DataFrame"
    /\ file.exists
    /\ call' = [op |-> "read"]
    /\ exc' = "ok"
    /\ ret' = Returned("Table", pd_read_csv(file.lines))
    /\ UNCHANGED <<cls, columns, file, handles, arrays>>

NextCsv ==
    \/ TableWrite
    \/ DataFrameToCsv
    \/ TableRead
    \/ ReadCsv
    \/ NextCell

SpecCsv == InitCsv /\ [][NextCsv]_vars

-----------------------------------------------------------------------------
(* numpy's readers of whitespace-delimited numeric text *)

\* The tokens found in the notebook's data files: numbers and the word
\* the notebook declares as the missing-value token.
Tokens == {"1", "1.5", "null"}

\* The files explored: 1..MaxRows lines of 1..MaxTokens tokens each
LineInputs == UNION {[1..n -> Tokens] : n \in 1..MaxTokens}
FileInputs == UNION {[1..n -> LineInputs] : n \in 1..MaxRows}

\* An array as numpy holds it: a shape and the elements in row-major order
ndarray(shape, data) == [shape |-> shape, data |-> data]

\* np.squeeze of a two-dimensional array given as a list of equal rows:
\* the axes of length one go away
np_squeeze(rows) ==
    LET R == Len(rows)
        C == Len(rows[1])
    IN  ndarray(SelectSeq(<<R, C>>, LAMBDA d : d # 1),
                [i \in 1..(R * C) |-> rows[((i - 1) \div C) + 1][((i - 1) % C) + 1]])

\* Lines whose number of tokens is not that of the first line
Ragged(lines) == \E i \in DOMAIN lines : Len(lines[i]) # Len(lines[1])

\* np.loadtxt(path): every line must have as many tokens as the first
\* ("Wrong number of columns at line n") and every token must be a float
\* literal ("could not convert string to float"); the result is squeezed.
np_loadtxt(lines) ==
    IF Ragged(lines) THEN Outcome(LengthError, <<>>, None)
    ELSE LET rows == [i \in DOMAIN lines |->
                        [j \in DOMAIN lines[i] |-> ParseFloat(lines[i][j])]]
         IN  IF \E i \in DOMAIN rows : HasRaise(rows[i])
             THEN Outcome(ConvertError, <<>>, None)
             ELSE Outcome("ok", <<>>, Returned("ndarray", np_squeeze(rows)))

\* The float converter of genfromtxt: a token listed in missing_values, and
\* a token that is no float literal, both give the filling value nan
StringConverter(token, missing_values) ==
    IF token = missing_values \/ ParseFloat(token) = Raise
    THEN NaN
    ELSE ParseFloat(token)

\* A genfromtxt that fills the tail of a short line with nan
np_genfromtxt_padded(lines, missing_values) ==
    LET C == Len(lines[1])
        rows == [i \in DOMAIN lines |->
                    [j \in 1..C |->
                        IF j \in DOMAIN lines[i]
                        THEN StringConverter(lines[i][j], missing_values)
                        ELSE NaN]]
    IN  Outcome("ok", <<>>, Returned("ndarray", np_squeeze(rows)))

\* np.genfromtxt(path, missing_values=...): the first line fixes the number
\* of columns; a line with another number of tokens is invalid and, with
\* invalid_raise left at True, the call raises ValueError ("Some errors were
\* detected! Line #n (got k columns instead of m)").  Otherwise every token
\* is converted and the result is squeezed.
np_genfromtxt(lines, missing_values) ==
    IF Ragged(lines) THEN Outcome(LengthError, <<>>, None)
    ELSE LET rows == [i \in DOMAIN lines |->
                        [j \in DOMAIN lines[i] |->
                            StringConverter(lines[i][j], missing_values)]]
         IN  Outcome("ok", <<>>, Returned("ndarray", np_squeeze(rows)))

\* The data files are on disk before the notebook runs
InitLoad ==
    /\ cls = "ndarray"
    /\ columns = <<>>
    /\ call = [op |-> "none"]
    /\ exc = "ok"
    /\ ret = None
    /\ file \in {TextFile(lines) : lines \in FileInputs}
    /\ NoHandles
    /\ NoArrays

\* more_numbers = np.loadtxt("more_numbers.txt")
LoadTxt ==
    /\ Idle
    /\ call' = [op |-> "loadtxt"]
    /\ Apply(np_loadtxt(file.lines))

\* more_numbers = np.genfromtxt("more_numbers.txt", missing_values="null")
GenFromTxt ==
    /\ Idle
    /\ call' = [op |-> "genfromtxt"]
    /\ Apply(np_genfromtxt(file.lines, "null"))

NextLoad ==
    \/ LoadTxt
    \/ GenFromTxt
    \/ NextCell

SpecLoad == InitLoad /\ [][NextLoad]_vars

-----------------------------------------------------------------------------
(* Plain files: open, write, readline, close *)

\* Largest number of characters output.txt is let to hold
MaxChars == 3

\* The texts the write statements put out, as sequences of characters
TextInputs == {<<"a">>, <<"b", "c">>}

\* A file object just opened.  Text written through it waits in `buffer`
\* until the object is closed (the texts are far shorter than the buffer);
\* `prior` and `start` remember, for the object's whole life, what the file
\* held when open() was called and what it held once the assignment was
\* done.
OpenFile(mode, prior, start) ==
    [closed |-> FALSE, mode |-> mode, buffer |-> <<>>,
     prior |-> prior, start |-> start]

\* The cells, each a list of statements run in order
Cells ==
    [R  |-> <<[op |-> "open", var |-> "input_file", mode |-> "r"],
              [op |-> "readline", var |-> "input_file", mode |-> ""],
              [op |-> "readline", var |-> "input_file", mode |-> ""],
              [op |-> "close", var |-> "input_file", mode |-> ""]>>,
     W1 |-> <<[op |-> "open", var |-> "output_file", mode |-> "w"],
              [op |-> "write", var |-> "output_file", mode |-> ""],
              [op |-> "write", var |-> "output_file", mode |-> ""],
              [op |-> "close", var |-> "output_file", mode |-> ""]>>,
     W2 |-> <<[op |-> "open", var |-> "output_file", mode |-> "w"],
              [op |-> "write", var |-> "output_file", mode |-> ""],
              [op |-> "close", var |-> "output_file", mode |-> ""]>>,
     A  |-> <<[op |-> "open", var |-> "output_file", mode |-> "a"],
              [op |-> "write", var |-> "output_file", mode |-> ""],
              [op |-> "close", var |-> "output_file", mode |-> ""]>>]

IOError == "OSError"

\* What output.txt holds
Content(f) == IF f.exists THEN f.bytes ELSE <<>>

\* Writing `text` at offset 0 of a file holding `content`
Overlay(text, content) ==
    [i \in 1..(IF Len(text) > Len(content) THEN Len(text) ELSE Len(content)) |->
        IF i <= Len(text) THEN text[i] ELSE content[i]]

\* What the file holds once a file object's buffer has gone out: an object
\* opened with 'w' has written nothing yet and writes at offset 0, one opened
\* with 'a' writes at the end whatever its offset
Flush(f, content) ==
    IF f.mode = "a" THEN content \o f.buffer ELSE Overlay(f.buffer, content)

\* The statement the running cell is at, and the two ways it can go on
Statement == Cells[pc.cell][pc.at]
Running(op, var) == pc # NoCell /\ Statement.op = op /\ Statement.var = var
Advance ==
    pc' = IF pc.at = Len(Cells[pc.cell]) THEN NoCell ELSE [pc EXCEPT !.at = @ + 1]
Abort == pc' = NoCell

InitFile ==
    /\ cls = "file"
    /\ columns = <<>>
    /\ call = [op |-> "none"]
    /\ exc = "ok"
    /\ ret = None
    /\ file = NoFile
    /\ NoHandles
    /\ NoArrays

\* Running a cell from its first statement
RunCell(c) ==
    /\ pc = NoCell
    /\ pc' = [cell |-> c, at |-> 1]
    /\ call' = [op |-> "none"]
    /\ exc' = "ok"
    /\ UNCHANGED <<cls, columns, ret, file, input_file, output_file, arrays>>

\* input_file = open("input.txt", 'r'): fails when the file is not there,
\* leaving the name as it was; otherwise the name is bound to the new object
\* and the object it was bound to, now unreferenced, is closed.
OpenInput ==
    /\ Running("open", "input_file")
    /\ call' = Statement
    /\ \/ exc' = "ok" /\ input_file' = OpenFile("r", <<>>, <<>>) /\ Advance
       \/ exc' = IOError /\ UNCHANGED input_file /\ Abort
    /\ UNCHANGED <<cls, columns, ret, file, output_file, arrays>>

\* output_file = open("output.txt", mode): 'w' creates or empties the file,
\* 'a' creates it or keeps it; then the name is bound to the new object and
\* the object it was bound to, now unreferenced, is closed, which sends its
\* buffer to the file.
OpenOutput ==
    /\ Running("open", "output_file")
    /\ call' = Statement
    /\ exc' = "ok"
    /\ LET opened == IF Statement.mode = "w" THEN <<>> ELSE Content(file)
           after == IF output_file.closed THEN opened
                    ELSE Flush(output_file, opened)
       IN  /\ file' = RawFile(after)
           /\ output_file' =
                OpenFile(Statement.mode, Content(file), after)
    /\ Advance
    /\ UNCHANGED <<cls, columns, ret, input_file, arrays>>

\* output_file.write(text): the text joins the buffer, or the call raises
\* and the rest of the cell is not run
Write(text) ==
    /\ Running("write", "output_file")
    /\ call' = Statement
    /\ \/ /\ Len(Content(file)) + Len(output_file.buffer) + Len(text) <= MaxChars
          /\ exc' = "ok"
          /\ output_file' = [output_file EXCEPT !.buffer = @ \o text]
          /\ Advance
       \/ exc' = IOError /\ UNCHANGED output_file /\ Abort
    /\ UNCHANGED <<cls, columns, ret, file, input_file, arrays>>

\* print(input_file.readline()): a line of input.txt, or the call raises
\* and the rest of the cell is not run
ReadLine ==
    /\ Running("readline", "input_file")
    /\ call' = Statement
    /\ \/ exc' = "ok" /\ Advance
       \/ exc' = IOError /\ Abort
    /\ UNCHANGED <<cls, columns, ret, file, input_file, output_file, arrays>>

\* input_file.close()
CloseInput ==
    /\ Running("close", "input_file")
    /\ call' = Statement
    /\ exc' = "ok"
    /\ input_file' = Closed
    /\ Advance
    /\ UNCHANGED <<cls, columns, ret, file, output_file, arrays>>

\* output_file.close(): the buffer goes to the file
CloseOutput ==
    /\ Running("close", "output_file")
    /\ call' = Statement
    /\ exc' = "ok"
    /\ file' = RawFile(Flush(output_file, Content(file)))
    /\ output_file' = Closed
    /\ Advance
    /\ UNCHANGED <<cls, columns, ret, input_file, arrays>>

NextFile ==
    \/ \E c \in DOMAIN Cells : RunCell(c)
    \/ OpenInput
    \/ OpenOutput
    \/ \E text \in TextInputs : Write(text)
    \/ ReadLine
    \/ CloseInput
    \/ CloseOutput

SpecFile == InitFile /\ [][NextFile]_vars

-----------------------------------------------------------------------------
(* numpy's binary files: np.save, np.savez, np.load *)

\* The numbers the array cells put in their lists: 1, 1.5 and np.nan
ArrayValues == {IntV(1), FloatV(3), NaN}
ArrayInputs == UNION {[1..n -> ArrayValues] : n \in 1..MaxRows}

\* np.array(list) of numbers: int64 when every element is an int, float64
\* otherwise; one axis
np_array(values) ==
    LET dtype == IF \A i \in DOMAIN values : values[i][1] = "int"
                 THEN "int64" ELSE "float64"
    IN  [dtype |-> dtype,
         shape |-> <<Len(values)>>,
         data |-> [i \in DOMAIN values |->
                      IF values[i] = NaN THEN NaN ELSE Cast(values[i], dtype)]]

\* The eight bytes of one element, as <<exponent all ones, number>>: a
\* float64 nan has the exponent bits all set, every other value carries its
\* number
Pack(v) == IF v = NaN THEN <<1, 0>> ELSE <<0, v[2]>>

\* The element that eight bytes spell under a dtype descriptor
Unpack(word, descr) ==
    CASE descr = "<i8" -> IntV(word[2])
      [] descr = "<f8" -> IF word[1] = 1 THEN NaN ELSE FloatV(word[2])

Descr(dtype) == IF dtype = "int64" THEN "<i8" ELSE "<f8"
Dtype(descr) == IF descr = "<i8" THEN "int64" ELSE "float64"

\* The .npy format: the magic string, a header with the dtype descriptor and
\* the shape, then the elements' bytes in order
npy_write(a) ==
    <<"NUMPY",
      [descr |-> Descr(a.dtype), shape |-> a.shape],
      [i \in DOMAIN a.data |-> Pack(a.data[i])]>>

npy_read(bytes) ==
    [dtype |-> Dtype(bytes[2].descr),
     shape |-> bytes[2].shape,
     data |-> [i \in DOMAIN bytes[3] |-> Unpack(bytes[3][i], bytes[2].descr)]]

\* np.savez given the arrays by position: the members are arr_0, arr_1
np_savez_positional(names, kwds) ==
    <<"PK",
      [i \in DOMAIN names |->
          [name |-> <<"arr_" \o IntText(i - 1), ".npy">>,
           bytes |-> npy_write(kwds[names[i]])]]>>

\* np.savez(path, **kwds): a zip archive with one member per keyword, named
\* <keyword>.npy and holding that array in the .npy format
np_savez(names, kwds) ==
    <<"PK",
      [i \in DOMAIN names |->
          [name |-> <<names[i], ".npy">>,
           bytes |-> npy_write(kwds[names[i]])]]>>

\* np.load(path): an archive (recognised by its first bytes) gives an
\* NpzFile, whose keys are the member names without their .npy ending and
\* whose items are the members read as .npy; an .npy file gives its array.
np_load(f) ==
    IF ~f.exists THEN Outcome(IOError, <<>>, None)
    ELSE IF f.bytes[1] = "PK"
    THEN LET members == f.bytes[2]
             keys == [i \in DOMAIN members |-> members[i].name[1]]
         IN  Outcome("ok", <<>>,
                Returned("NpzFile",
                    [keys |-> keys,
                     items |-> [k \in {keys[i] : i \in DOMAIN keys} |->
                        npy_read(members[CHOOSE i \in DOMAIN members :
                                            members[i].name[1] = k].bytes)]]))
    ELSE Outcome("ok", <<>>, Returned("ndarray", npy_read(f.bytes)))

InitNpy ==
    /\ cls = "ndarray"
    /\ columns = <<>>
    /\ call = [op |-> "none"]
    /\ exc = "ok"
    /\ ret = None
    /\ file = NoFile
    /\ NoHandles
    /\ NoArrays

\* x1 = np.array([...]); np.save("x1.npy", x1)
Save(values) ==
    /\ Idle
    /\ call' = [op |-> "save"]
    /\ x1' = np_array(values)
    /\ file' = RawFile(npy_write(x1'))
    /\ exc' = "ok"
    /\ ret' = None
    /\ UNCHANGED <<cls, columns, handles, x2>>

\* x2 = np.array([...]); np.savez("another_variable.npz", x1=x1, x2=x2)
Savez(values) ==
    /\ Idle
    /\ x1 # None
    /\ call' = [op |-> "savez"]
    /\ x2' = np_array(values)
    /\ file' = RawFile(np_savez(<<"x1", "x2">>, [x1 |-> x1, x2 |-> x2']))
    /\ exc' = "ok"
    /\ ret' = None
    /\ UNCHANGED <<cls, columns, handles, x1>>

\* new_x1 = np.load("x1.npy") / more_variables = np.load("another_variable.npz")
\* `file` is the file written last, the one the load that follows names.
Load ==
    /\ Idle
    /\ call' = [op |-> "load"]
    /\ Apply(np_load(file))

NextNpy ==
    \/ \E values \in ArrayInputs : Save(values)
    \/ \E values \in ArrayInputs : Savez(values)
    \/ Load
    \/ NextCell

SpecNpy == InitNpy /\ [][NextNpy]_vars

-----------------------------------------------------------------------------
(* Properties *)

\* The Python type a column dtype holds
TypeOf(dtype) ==
    CASE dtype = "int64" -> "int"
      [] dtype = "float64" -> "float"
      [] dtype = "str" -> "str"
      [] dtype = "object" -> "object"

\* new is old with exactly one value added at the end of every column
Appended(old, new) ==
    /\ Len(new) = Len(old)
    /\ \A i \in DOMAIN old :
        /\ new[i].name = old[i].name
        /\ new[i].dtype = old[i].dtype
        /\ Len(new[i].data) = Len(old[i].data) + 1
        /\ SubSeq(new[i].data, 1, Len(old[i].data)) = old[i].data

\* C1: in every state reachable by column assignments and row appends,
\* successful or failed, every column has the same length, the row count.
C1_EqualColumnLengths ==
    \A i \in DOMAIN columns : Len(columns[i].data) = RowCount(columns)

C1_Witness ==
    /\ call.op = "add_row"
    /\ exc = "ok"
    /\ Len(columns) = 2
    /\ RowCount(columns) = 2

\* C2 as stated: add_row with as many values as there are columns extends
\* every column by one; any other call raises the length error and leaves the
\* table as it was.
C2_Original ==
    [][call'.op = "add_row" =>
        IF Len(call'.vals) = Len(columns)
        THEN /\ exc' = "ok"
             /\ \A i \in DOMAIN columns :
                    Len(columns'[i].data) = Len(columns[i].data) + 1
        ELSE /\ exc' = LengthError
             /\ columns' = columns]_vars

\* C2 (amended): add_row either extends every column by exactly one value or
\* raises and leaves the table exactly as it was.  It raises the length error
\* exactly when the number of values differs from the number of columns, and
\* with the right number of values it raises only when some value is not of
\* its column's type and cannot be converted to it.
C2_AppendRowAtomic ==
    [][call'.op = "add_row" =>
        /\ exc' \in {"ok", LengthError, ConvertError}
        /\ exc' = "ok" => Appended(columns, columns')
        /\ exc' # "ok" => columns' = columns
        /\ (exc' = LengthError) <=> (Len(call'.vals) # Len(columns))
        /\ exc' = ConvertError =>
              \E i \in DOMAIN columns : call'.vals[i][1] # TypeOf(columns[i].dtype)]_vars

C2_Witness ==
    /\ call.op = "add_row"
    /\ exc = ConvertError
    /\ Len(columns) = 2
    /\ RowCount(columns) >= 1
    /\ call.vals[1][1] = TypeOf(columns[1].dtype)

C3_Excepted(name, values) ==
    \/ cls = "Table" /\ Len(values) = 1
    \/ cls = "Table" /\ Len(columns) = 1 /\ columns[1].name = name
    \/ cls = "DataFrame" /\ RowCount(columns) = 0

C4_Original ==
    [][(call'.op = "setitem" /\ call'.name \notin NameSet(columns)) =>
        ((exc' = "ok") <=>
            (Len(call'.values) = RowCount(columns) \/ RowCount(columns) = 0))]_vars

\* C4 (amended): a pandas DataFrame accepts a new column exactly when its
\* length is the row count or the row count is 0; an astropy Table accepts it
\* exactly when the table has no columns, or its length is the row count, or
\* it has one element and the table has rows (the element fills every row).
C4_AddColumnAccepted ==
    [][(call'.op = "setitem" /\ call'.name \notin NameSet(columns)) =>
        ((exc' = "ok") <=>
            IF cls = "DataFrame"
            THEN Len(call'.values) = RowCount(columns) \/ RowCount(columns) = 0
            ELSE \/ columns = <<>>
                 \/ Len(call'.values) = RowCount(columns)
                 \/ Len(call'.values) = 1 /\ RowCount(columns) > 0)]_vars

C4_Witness ==
    /\ cls = "Table"
    /\ call.op = "setitem"
    /\ exc = "ok"
    /\ Len(columns) = 2
    /\ columns[2].name = call.name
    /\ Len(call.values) = 1
    /\ RowCount(columns) = 2

\* Python's == on two values: an int equals the float of the same value
SameValue(a, b) ==
    \/ a = b
    \/ a[1] = "int" /\ b[1] = "float" /\ 2 * a[2] = b[2]
    \/ a[1] = "float" /\ b[1] = "int" /\ a[2] = 2 * b[2]

SameValues(s, t) ==
    /\ Len(s) = Len(t)
    /\ \A i \in DOMAIN s : SameValue(s[i], t[i])

UniqueNames(cols) ==
    \A i, j \in DOMAIN cols : cols[i].name = cols[j].name => i = j

\* table[name] evaluated on cols
getColumn(cols, name) ==
    IF cls = "Table" THEN Table_getitem_name(cols, name)
    ELSE DataFrame_getitem_name(cols, name)

\* C5 as stated: the table starts without columns and rows; a successful
\* assignment adds one column when the name is new and keeps the column count
\* when it replaces, names stay unique, and reading the column afterwards
\* gives exactly the list assigned.
C5_Original ==
    /\ columns = <<>> /\ RowCount(columns) = 0
    /\ [][(call'.op = "setitem" /\ exc' = "ok") =>
            /\ Len(columns') = Len(columns)
                    + (IF call'.name \in NameSet(columns) THEN 0 ELSE 1)
            /\ UniqueNames(columns')
            /\ \A o \in getColumn(columns', call'.name) :
                    o.exc = "ok" /\ SameValues(o.ret.value, call'.values)]_vars

\* What a column of dtype dt stores for the assigned value v
Stored(v, dt) == IF dt = "object" THEN v ELSE Cast(v, dt)

\* C5 (amended): the table starts without columns and rows; a successful
\* assignment adds one column when the name is new and keeps the column count
\* when it replaces, names stay unique, and reading the column afterwards
\* gives the assigned list converted to the column's dtype, a one-element
\* list repeated for every row when it was broadcast.  It is the assigned list
\* itself when the list does not mix text with numbers and is as long as the
\* table.
C5_SetColumnThenGet ==
    /\ columns = <<>> /\ RowCount(columns) = 0
    /\ [][(call'.op = "setitem" /\ exc' = "ok") =>
            /\ Len(columns') = Len(columns)
                    + (IF call'.name \in NameSet(columns) THEN 0 ELSE 1)
            /\ UniqueNames(columns')
            /\ \A o \in getColumn(columns', call'.name) :
                LET got == o.ret.value
                    dt == columns'[IndexOf(columns', call'.name)].dtype
                    values == call'.values
                IN  /\ o.exc = "ok"
                    /\ Len(got) = RowCount(columns')
                    /\ Len(values) \in {Len(got), 1}
                    /\ \A k \in DOMAIN got :
                          got[k] = Stored(values[IF Len(values) = 1 THEN 1 ELSE k], dt)
                    /\ (Len(values) = Len(got)
                            /\ ("str" \in Tags(values) => Tags(values) = {"str"}))
                       => SameValues(got, values)]_vars

C5_Witness ==
    /\ call.op = "setitem"
    /\ exc = "ok"
    /\ Len(columns) = 2
    /\ columns[1].name = call.name
    /\ RowCount(columns) = 2
    /\ Len(call.values) = 2

\* The row at 0-based position i of cols, as new_table[i] returns it
RowAt(cols, i) == Returned("Row", [c \in DOMAIN cols |-> cols[c].data[i + 1]])

\* C6 as stated: new_table[index] is the row at that position when
\* 0 <= index < row count, and raises IndexError for every other index.
C6_Original ==
    [][call'.op = "getitem_row" =>
        IF 0 <= call'.index /\ call'.index < RowCount(columns)
        THEN exc' = "ok" /\ ret' = RowAt(columns, call'.index)
        ELSE exc' = IndexError /\ ret' = None]_vars

\* C6 (amended): new_table[index] is the row at that position when
\* 0 <= index < row count, the row at position row count + index when
\* -row count <= index < 0, and raises IndexError, returning nothing, for
\* every other index.
C6_GetRow ==
    [][call'.op = "getitem_row" =>
        LET n == RowCount(columns)
            index == call'.index
        IN  /\ columns' = columns
            /\ IF 0 <= index /\ index < n
               THEN exc' = "ok" /\ ret' = RowAt(columns, index)
               ELSE IF 0 - n <= index /\ index < 0
               THEN exc' = "ok" /\ ret' = RowAt(columns, n + index)
               ELSE exc' = IndexError /\ ret' = None]_vars

C6_Witness ==
    /\ call.op = "getitem_row"
    /\ call.index = 0 - 1
    /\ exc = "ok"
    /\ Len(columns) = 2
    /\ RowCount(columns) = 2
    /\ ret = RowAt(columns, 1)
    /\ ret # RowAt(columns, 0)

\* table[i] evaluated on cols
getRow(cols, i) == Table_getitem_row(cols, i)

\* What the caller of a statement sees: the exception or the value
Seen(outcomes) == {[exc |-> o.exc, ret |-> o.ret] : o \in outcomes}

\* C7 as stated: after a successful add_row(vals) on a table of R rows the
\* row count is R + 1, row R is vals, and the rows before it are as they were.
C7_Original ==
    [][(call'.op = "add_row" /\ exc' = "ok") =>
        LET R == RowCount(columns)
        IN  /\ RowCount(columns') = R + 1
            /\ \A o \in getRow(columns', R) :
                    o.exc = "ok" /\ SameValues(o.ret.value, call'.vals)
            /\ \A i \in 0..(R - 1) : Seen(getRow(columns', i)) = Seen(getRow(columns, i))]_vars

\* C7 (amended): after a successful add_row(vals) on a table of R rows that
\* has at least one column, the row count is R + 1, row R holds each value of
\* vals converted to its column's dtype (vals itself when every value has its
\* column's type), and the rows before it are as they were.  On a table
\* without columns add_row(()) succeeds and changes nothing.
C7_AppendRowThenGet ==
    [][(call'.op = "add_row" /\ exc' = "ok") =>
        LET R == RowCount(columns)
            vals == call'.vals
        IN  IF columns = <<>>
            THEN vals = <<>> /\ columns' = columns
            ELSE /\ RowCount(columns') = R + 1
                 /\ \A o \in getRow(columns', R) :
                      /\ o.exc = "ok"
                      /\ Len(o.ret.value) = Len(vals)
                      /\ \A c \in DOMAIN vals :
                            o.ret.value[c] = Cast(vals[c], columns[c].dtype)
                      /\ (\A c \in DOMAIN vals : vals[c][1] = TypeOf(columns[c].dtype))
                            => o.ret.value = vals
                 /\ \A i \in 0..(R - 1) : Seen(getRow(columns', i)) = Seen(getRow(columns, i))]_vars

C7_Witness ==
    /\ call.op = "add_row"
    /\ exc = "ok"
    /\ Len(columns) = 2
    /\ RowCount(columns) = 2
    /\ call.vals[1] = FloatV(3)
    /\ columns[1].dtype = "int64"
    /\ columns[2].data[1] # columns[2].data[2]

\* The names of a list, as a set
Requested(names) == {names[k] : k \in DOMAIN names}

\* C8 as stated: reading a column by a name the table lacks raises KeyError;
\* reading a list of names raises KeyError, with no partial result, when any
\* of them is missing, and otherwise gives a table of exactly the requested
\* columns, each with all its rows in order.
C8_Original ==
    [][/\ call'.op = "getitem_name" =>
            IF call'.name \notin NameSet(columns)
            THEN exc' = KeyError /\ ret' = None
            ELSE exc' = "ok"
       /\ call'.op = "getitem_names" =>
            IF \E k \in DOMAIN call'.names : call'.names[k] \notin NameSet(columns)
            THEN exc' = KeyError /\ ret' = None
            ELSE /\ exc' = "ok"
                 /\ ret'.kind = "Table"
                 /\ NameSet(ret'.value) = Requested(call'.names)
                 /\ \A k \in DOMAIN ret'.value :
                        ret'.value[k] = columns[IndexOf(columns, ret'.value[k].name)]]_vars

\* C8 (amended): reading a column by a name the table lacks raises KeyError;
\* reading a non-empty list of distinct names raises KeyError, with no
\* partial result, when any of them is missing, and otherwise gives a table of
\* exactly the requested columns, in the order requested, each with all its
\* rows in order.  A list that repeats a name of the table raises ValueError
\* (duplicate column names), and the empty list gives every column of the
\* table with no rows.
C8_GetColumns ==
    [][/\ call'.op \in {"getitem_name", "getitem_names"} => columns' = columns
       /\ call'.op = "getitem_name" =>
            IF call'.name \notin NameSet(columns)
            THEN exc' = KeyError /\ ret' = None
            ELSE /\ exc' = "ok"
                 /\ ret' = Returned("Column", columns[IndexOf(columns, call'.name)].data)
       /\ call'.op = "getitem_names" =>
            LET names == call'.names
            IN  IF names = <<>>
                THEN /\ exc' = "ok"
                     /\ ret'.kind = "Table"
                     /\ colnames(ret'.value) = colnames(columns)
                     /\ \A k \in DOMAIN ret'.value : ret'.value[k].data = <<>>
                ELSE IF \E k \in DOMAIN names : names[k] \notin NameSet(columns)
                THEN exc' = KeyError /\ ret' = None
                ELSE IF Cardinality(Requested(names)) # Len(names)
                THEN exc' = DuplicateError /\ ret' = None
                ELSE /\ exc' = "ok"
                     /\ ret'.kind = "Table"
                     /\ colnames(ret'.value) = names
                     /\ \A k \in DOMAIN names :
                            ret'.value[k] = columns[IndexOf(columns, names[k])]]_vars

C8_Witness ==
    /\ call.op = "getitem_names"
    /\ exc = "ok"
    /\ Len(columns) = 2
    /\ RowCount(columns) = 2
    /\ call.names = <<columns[2].name>>
    /\ ret.value = <<columns[2]>>

\* Two values a text file cannot tell apart: equal, or spelled the same
TextEq(a, b) == SameValue(a, b) \/ Text(a) = Text(b)

\* The cells of table `got` from column `from` on are those of `cols`
SameCells(got, from, cols) ==
    /\ Len(got) = from - 1 + Len(cols)
    /\ \A c \in DOMAIN cols :
        /\ got[from - 1 + c].name = cols[c].name
        /\ Len(got[from - 1 + c].data) = Len(cols[c].data)
        /\ \A r \in DOMAIN cols[c].data :
              TextEq(got[from - 1 + c].data[r], cols[c].data[r])

Widest(lines) ==
    CHOOSE w \in 1..MaxTokens :
        /\ \E i \in DOMAIN lines : Len(lines[i]) = w
        /\ \A i \in DOMAIN lines : Len(lines[i]) <= w

\* Element (i, j) of an array of the given number of columns
At(a, C, i, j) == a.data[(i - 1) * C + j]

C10_WitnessToken ==
    /\ call.op = "genfromtxt"
    /\ file.lines = <<<<"1", "null">>, <<"1.5", "1">>>>
    /\ exc = "ok"
    /\ ret.value = ndarray(<<2, 2>>, <<FloatV(2), NaN, FloatV(3), FloatV(2)>>)

IsPrefix(p, t) == Len(p) <= Len(t) /\ SubSeq(t, 1, Len(p)) = p
IsSuffix(p, t) == Len(p) <= Len(t) /\ SubSeq(t, Len(t) - Len(p) + 1, Len(t)) = p

\* C11: when a file object opened with 'w' is closed, the file holds exactly
\* what was written through that object; when one opened with 'a' is closed,
\* the file starts with what it held at the open, unchanged, and ends with
\* what was written through the object.
C11_Original ==
    [][(call'.op = "close" /\ call'.var = "output_file") =>
        /\ output_file.mode = "w" => Content(file') = output_file.buffer
        /\ output_file.mode = "a" =>
            /\ IsPrefix(output_file.prior, Content(file'))
            /\ IsSuffix(output_file.buffer, Content(file'))]_vars

\* What the code does at every close: the text put into the file by the
\* object the name was bound to before, if that one was still open at the
\* assignment, stays under or before the text written through the closed
\* one; when the name was bound to no open object, C11's statement holds.
C11_FileAfterClose ==
    [][(call'.op = "close" /\ call'.var = "output_file") =>
        /\ output_file.mode = "w" =>
            /\ Content(file') = Overlay(output_file.buffer, output_file.start)
            /\ output_file.start = <<>> => Content(file') = output_file.buffer
        /\ output_file.mode = "a" =>
            /\ Content(file') = output_file.start \o output_file.buffer
            /\ output_file.start = output_file.prior =>
                Content(file') = output_file.prior \o output_file.buffer]_vars

\* A cell that opened output.txt with 'w' and wrote "a" has closed it, and
\* the file holds "ac"
C11_Witness ==
    /\ call.op = "close"
    /\ call.var = "output_file"
    /\ pc = NoCell
    /\ output_file = Closed
    /\ Content(file) = <<"a", "c">>

\* C12: no cell ends, normally or by an exception, with a file object it
\* opened still open.
C12_Original ==
    pc = NoCell => (input_file.closed /\ output_file.closed)

\* A cell has ended at a write that raised, with text in the buffer of the
\* file object it leaves open
C12_Witness ==
    /\ pc = NoCell
    /\ call.op = "write"
    /\ exc = IOError
    /\ ~output_file.closed
    /\ output_file.buffer # <<>>

\* The semantic type of a value; NaN is a floating point value
SemType(v) == IF v = NaN THEN "float" ELSE v[1]

\* C13 as stated: in every state reached by setColumn and appendRow, every
\* column holds values of one semantic type only: integer, floating point or
\* text.
C13_Original ==
    \A c \in DOMAIN columns :
        \E t \in {"int", "float", "str"} :
            \A r \in DOMAIN columns[c].data : SemType(columns[c].data[r]) = t

\* C13 (amended): in every state reached by setColumn and appendRow on an
\* astropy Table, every column holds values of one semantic type only, the
\* one of its dtype; an add_row whose value is of another type than its
\* column stores the value converted to the column's type or fails.  In a
\* pandas DataFrame a column of dtype int64 or float64 holds values of that
\* one type, and a column assigned a list that holds a text has dtype object
\* and holds the values of the list as they are, numbers and texts alike.
C13_ColumnTypes ==
    \A c \in DOMAIN columns :
        \/ /\ columns[c].dtype \in {"int64", "float64", "str"}
           /\ \A r \in DOMAIN columns[c].data :
                SemType(columns[c].data[r]) = TypeOf(columns[c].dtype)
        \/ /\ cls = "DataFrame"
           /\ columns[c].dtype = "object"

\* add_row has stored a value of another type than its column's
C13_Witness ==
    /\ cls = "Table"
    /\ call.op = "add_row"
    /\ exc = "ok"
    /\ RowCount(columns) = 2
    /\ \E c \in DOMAIN columns :
        /\ call.vals[c][1] # TypeOf(columns[c].dtype)
        /\ columns[c].data[2] = Cast(call.vals[c], columns[c].dtype)

\* C14: loading an archive written by savez gives a mapping whose key set is
\* exactly the set of names saved and in which each name addresses the array
\* saved under it; loading a file written by save gives exactly the array
\* that was saved.
C14_SaveThenLoad ==
    [][(call'.op = "load" /\ file.exists) =>
        /\ exc' = "ok"
        /\ ret'.kind = "ndarray" => ret'.value = x1
        /\ ret'.kind = "NpzFile" =>
            /\ {ret'.value.keys[i] : i \in DOMAIN ret'.value.keys} = {"x1", "x2"}
            /\ Len(ret'.value.keys) = 2
            /\ ret'.value.items["x1"] = x1
            /\ ret'.value.items["x2"] = x2]_vars

\* An archive holding an int64 array and a float64 array with a nan has
\* been loaded
C14_Witness ==
    /\ call.op = "load"
    /\ ret.kind = "NpzFile"
    /\ x1.dtype = "int64"
    /\ x2.dtype = "float64"
    /\ \E i \in DOMAIN x2.data : x2.data[i] = NaN
    /\ ret.value.items["x2"] = x2

\* The column names after a setitem of `name`: as before when the name
\* exists or the call fails, with `name` added last otherwise
OrderKept(name) ==
    colnames(columns') =
        IF name \in NameSet(columns) \/ exc' # "ok"
        THEN colnames(columns)
        ELSE Append(colnames(columns), name)

====
